---- MODULE Spec2Model ----
(* A model of the Telegram LLM bot of src/main.rs: the dispatch tree built   *)
(* by create_message_handler, the command handler, the mention handler and   *)
(* the completion requester. Every inbound message is one handler            *)
(* invocation; an invocation moves at the points where the code awaits.      *)
EXTENDS Integers, Sequences, FiniteSets, TLC

VARIABLES config, me, inv

vars == <<config, me, inv>>

----------------------------------------------------------------------------
(* Bounds of the model *)

\* number of inbound messages the update source delivers
MaxMsgs == 2

----------------------------------------------------------------------------
(* Values *)

\* Option: None and Some(x)
None == {}

Some(x) == {x}

IsSome(o) == o # {}

Unwrap(o) == CHOOSE x \in o : TRUE

\* Result: Ok(v) and Err(e)
Ok(v) == [ok |-> TRUE, val |-> v]

Err(e) == [ok |-> FALSE, val |-> e]

\* chat identifiers of the inbound messages
Chats == {42, 7}

\* usernames the bot account may have (Me, fetched by the dispatcher)
BotNames == {"bot", "mybot"}

\* a message text, as the command grammar sees it: the first word up to an
\* optional '@', and the bot name after the '@'
Txt(word, at) == [word |-> word, at |-> at]

Texts ==
    { Txt("/start", None), Txt("/help", Some("mybot")), Txt("hi", None) }

\* the entity lists a text message may carry
EntityLists == { << >>, <<"bot_command", "mention">> }

\* a text message has text and entities; any other message has neither, and
\* may carry a caption
InboundMessages ==
    [chat : Chats, text : {Some(t) : t \in Texts}, caption : {None},
     entities : {Some(e) : e \in EntityLists}]
        \cup [chat : Chats, text : {None}, caption : {None, Some(Txt("/start", None))},
              entities : {None}]

\* the environments the process may be started in
Environments ==
    { [OPENAI_MODEL_NAME |-> "gpt-4o", BOT_GREETING_MESSAGE |-> None],
      [OPENAI_MODEL_NAME |-> "", BOT_GREETING_MESSAGE |-> Some(<<"Welcome!">>)] }

\* what the completion service may answer: a transport/API error, or a
\* response with candidates, each with optional text
ApiErrors == {"Timeout"}

Response(err, choices) == [err |-> err, choices |-> choices]

Responses ==
    { Response(Some(e), << >>) : e \in ApiErrors }
        \cup { Response(None, c) :
                 c \in { << >>, <<Some(<<"It's", " sunny.">>)>>,
                         <<None, Some(<<"It's", " sunny.">>)>> } }

----------------------------------------------------------------------------
(* The Command enum and its parser *)

Command == {"Help", "Start"}

\* Command::parse(text, bot_name), derived by BotCommands with the lowercase
\* rename rule: a command addressed to another bot is refused, then the
\* first word is matched against "/help" and "/start"
Command_parse(s, bot_name) ==
    IF IsSome(s.at) /\ Unwrap(s.at) # bot_name THEN Err("WrongBotName")
    ELSE IF s.word = "/help" THEN Ok("Help")
    ELSE IF s.word = "/start" THEN Ok("Start")
    ELSE Err("UnknownCommand")

----------------------------------------------------------------------------
(* BotConfig *)

\* BotConfig::from_env
from_env(env) ==
    [ greeting_message |->
          IF IsSome(env.BOT_GREETING_MESSAGE)
          THEN Unwrap(env.BOT_GREETING_MESSAGE)
          ELSE <<"Hello! I'm an AI assistant bot using ", env.OPENAI_MODEL_NAME,
                 ". Mention me (@bot_username) in a message to talk to me.">>,
      llm_model_name |-> env.OPENAI_MODEL_NAME ]

----------------------------------------------------------------------------
(* Outbound actions, as the collaborators see them *)

\* bot.send_chat_action(chat, Typing), and whether the platform accepted it
SendChatAction(chat, ok) == [kind |-> "send_chat_action", chat |-> chat, action |-> "Typing", ok |-> ok]

\* bot.send_message(chat, text), and whether the platform accepted it
SendMessage(chat, text, ok) == [kind |-> "send_message", chat |-> chat, text |-> text, ok |-> ok]

\* client.chat().create(request): one user-role message
Create(model, content) == [kind |-> "create", model |-> model, content |-> content]

\* log::error!
LogError(text) == [kind |-> "log_error", text |-> text]

Apology == <<"Sorry, I encountered an error while processing your request.">>

----------------------------------------------------------------------------
(* Pure functions of main.rs *)

\* is_mention_message looking at the first entity only
is_mention_message_first(msg) ==
    IF IsSome(msg.entities)
    THEN Len(Unwrap(msg.entities)) > 0 /\ Unwrap(msg.entities)[1] = "mention"
    ELSE FALSE

\* is_mention_message
is_mention_message(msg) ==
    IF IsSome(msg.entities)
    THEN \E k \in 1..Len(Unwrap(msg.entities)) : Unwrap(msg.entities)[k] = "mention"
    ELSE FALSE

\* filter_command::<Command>(): the text, or else the caption, parses as a
\* command for the bot's own username
filter_command(msg, bot_name) ==
    LET text == IF IsSome(msg.text) THEN msg.text ELSE msg.caption
    IN  IsSome(text) /\ Command_parse(Unwrap(text), bot_name).ok

\* create_message_handler with endpoints that do not end the dispatch: every
\* branch whose filter passes runs
create_message_handler_both(msg, bot_name) ==
    (IF filter_command(msg, bot_name) THEN <<"command">> ELSE << >>)
        \o (IF is_mention_message(msg) THEN <<"mention">> ELSE << >>)

\* create_message_handler with the two branches in the other order
create_message_handler_swapped(msg, bot_name) ==
    IF is_mention_message(msg) THEN <<"mention">>
    ELSE IF filter_command(msg, bot_name) THEN <<"command">>
    ELSE << >>

\* create_message_handler with an unfiltered second branch
create_message_handler_nofilter(msg, bot_name) ==
    IF filter_command(msg, bot_name) THEN <<"command">> ELSE <<"mention">>

\* the endpoints of the dispatch tree built by create_message_handler that
\* run for a message, in order: the branches are tried in turn, and the
\* endpoint of the first branch whose filter passes ends the dispatch
create_message_handler(msg, bot_name) ==
    IF filter_command(msg, bot_name) THEN <<"command">>
    ELSE IF is_mention_message(msg) THEN <<"mention">>
    ELSE << >>

\* extract_message_text
extract_message_text(msg) ==
    IF IsSome(msg.text) THEN Unwrap(msg.text) ELSE Txt("Hello", None)

\* send_openai_request keeping only the head of the content
send_openai_request_truncated(resp) ==
    IF IsSome(resp.err) THEN Err(<<"OpenAI API error: ", Unwrap(resp.err)>>)
    ELSE IF Len(resp.choices) > 0
         THEN IF IsSome(resp.choices[1])
              THEN Ok(SubSeq(Unwrap(resp.choices[1]), 1, 1))
              ELSE Err(<<"Received an empty response">>)
         ELSE Err(<<"No response choices available">>)

\* send_openai_request taking the first candidate that carries text
send_openai_request_anytext(resp) ==
    IF IsSome(resp.err) THEN Err(<<"OpenAI API error: ", Unwrap(resp.err)>>)
    ELSE IF \E k \in DOMAIN resp.choices : IsSome(resp.choices[k])
         THEN LET k == CHOOSE n \in DOMAIN resp.choices :
                          /\ IsSome(resp.choices[n])
                          /\ \A m \in 1..(n - 1) : ~IsSome(resp.choices[m])
              IN  Ok(Unwrap(resp.choices[k]))
         ELSE IF Len(resp.choices) > 0
              THEN Err(<<"Received an empty response">>)
              ELSE Err(<<"No response choices available">>)

\* the outcome of send_openai_request on a service response
send_openai_request(resp) ==
    IF IsSome(resp.err) THEN Err(<<"OpenAI API error: ", Unwrap(resp.err)>>)
    ELSE IF Len(resp.choices) > 0
         THEN IF IsSome(resp.choices[1])
              THEN Ok(Unwrap(resp.choices[1]))
              ELSE Err(<<"Received an empty response">>)
         ELSE Err(<<"No response choices available">>)

\* command_handler parsing for the username the Router's filter parsed for
command_handler_me(msg, greeting, ok) ==
    LET text == IF IsSome(msg.text) THEN Unwrap(msg.text) ELSE Txt("", None)
    IN  IF Command_parse(text, me).ok
        THEN <<SendMessage(msg.chat, greeting, ok)>>
        ELSE << >>

\* the outbound actions of command_handler
command_handler(msg, greeting, ok) ==
    LET text == IF IsSome(msg.text) THEN Unwrap(msg.text) ELSE Txt("", None)
    IN  IF Command_parse(text, "bot").ok
        THEN <<SendMessage(msg.chat, greeting, ok)>>
        ELSE << >>

\* handle_mention sending the error text to the chat
handle_mention_reply_raw(msg, result, ok) ==
    IF result.ok
    THEN <<SendMessage(msg.chat, result.val, ok)>>
    ELSE <<LogError(<<"OpenAI request error: ">> \o result.val),
           SendMessage(msg.chat, result.val, ok)>>

\* handle_mention apologising to one fixed chat
handle_mention_reply_fixedchat(msg, result, ok) ==
    IF result.ok
    THEN <<SendMessage(msg.chat, result.val, ok)>>
    ELSE <<LogError(<<"OpenAI request error: ">> \o result.val),
           SendMessage(42, Apology, ok)>>

\* handle_mention treating a refused reply like a failed completion
handle_mention_reply_fallback(msg, result, ok) ==
    IF result.ok
    THEN IF ok
         THEN <<SendMessage(msg.chat, result.val, TRUE)>>
         ELSE <<SendMessage(msg.chat, result.val, FALSE),
                LogError(<<"OpenAI request error: ", "RequestError">>),
                SendMessage(msg.chat, Apology, TRUE)>>
    ELSE <<LogError(<<"OpenAI request error: ">> \o result.val),
           SendMessage(msg.chat, Apology, ok)>>

\* handle_mention apologising first and logging afterwards
handle_mention_reply_logafter(msg, result, ok) ==
    IF result.ok
    THEN <<SendMessage(msg.chat, result.val, ok)>>
    ELSE IF ok
         THEN <<SendMessage(msg.chat, Apology, TRUE),
                LogError(<<"OpenAI request error: ">> \o result.val)>>
         ELSE <<SendMessage(msg.chat, Apology, FALSE)>>

\* what handle_mention does once the completion call has returned
handle_mention_reply(msg, result, ok) ==
    IF result.ok
    THEN <<SendMessage(msg.chat, result.val, ok)>>
    ELSE <<LogError(<<"OpenAI request error: ">> \o result.val),
           SendMessage(msg.chat, Apology, ok)>>

----------------------------------------------------------------------------
(* State *)

\* an invocation of the handler tree for one inbound message: the endpoints
\* the tree runs for it, those entered so far, the argument the closure gave
\* the running one, the outbound actions so far, the service's response and
\* what send_openai_request made of it, and the result of the invocation
Invocation(msg) ==
    [ msg |-> msg, pc |-> "route", branches |-> << >>, ran |-> << >>, arg |-> None,
      events |-> << >>, response |-> None, completion |-> None, result |-> None ]

\* closures that hand command_handler the default greeting, whatever the
\* configured one
ClosureArg_default(endpoint, cfg) ==
    IF endpoint = "command"
    THEN Some(from_env([OPENAI_MODEL_NAME |-> cfg.llm_model_name,
                        BOT_GREETING_MESSAGE |-> None]).greeting_message)
    ELSE Some(cfg.llm_model_name)

\* the closures of create_message_handler: the greeting for command_handler,
\* the model name for handle_mention
ClosureArg(endpoint, cfg) ==
    IF endpoint = "command" THEN Some(cfg.greeting_message) ELSE Some(cfg.llm_model_name)

\* the tree moves on: the next endpoint is entered, or the dispatch of the
\* message ends with the given result
Continue(r, cfg, result) ==
    IF result.ok /\ Len(r.ran) < Len(r.branches)
    THEN LET endpoint == r.branches[Len(r.ran) + 1]
         IN  [r EXCEPT !.pc = endpoint, !.ran = Append(@, endpoint),
                       !.arg = ClosureArg(endpoint, cfg)]
    ELSE [r EXCEPT !.pc = "done", !.result = Some(result)]

\* the result of a handler whose outbound actions were out: the first
\* refused send is returned by the ? operator
HandlerResult(out) ==
    IF \E k \in 1..Len(out) : out[k].kind \in {"send_message", "send_chat_action"} /\ ~out[k].ok
    THEN Err("RequestError")
    ELSE Ok("unit")

Init ==
    /\ config \in {from_env(env) : env \in Environments}
    /\ me \in BotNames
    /\ inv = << >>

\* a dispatcher that stops taking updates once a handler has returned an error
Route_halting(msg) ==
    /\ Len(inv) < MaxMsgs
    /\ \A j \in DOMAIN inv : inv[j].msg.chat = msg.chat => inv[j].pc = "done"
    /\ \A j \in DOMAIN inv : inv[j].result # None => Unwrap(inv[j].result).ok
    /\ inv' = Append(inv, Continue([Invocation(msg) EXCEPT
                                       !.branches = create_message_handler(msg, me)],
                                   config, Ok("unit")))
    /\ UNCHANGED <<config, me>>

\* the dispatcher hands an inbound message to the handler tree; updates of
\* one chat are handled one after the other, updates of different chats
\* concurrently
Route(msg) ==
    /\ Len(inv) < MaxMsgs
    /\ \A j \in DOMAIN inv : inv[j].msg.chat = msg.chat => inv[j].pc = "done"
    /\ inv' = Append(inv, Continue([Invocation(msg) EXCEPT
                                       !.branches = create_message_handler(msg, me)],
                                   config, Ok("unit")))
    /\ UNCHANGED <<config, me>>

\* command_handler runs; ok is whether the platform accepts the send
CommandHandler(i, ok) ==
    /\ i \in DOMAIN inv
    /\ inv[i].pc = "command"
    /\ LET out == command_handler(inv[i].msg, Unwrap(inv[i].arg), ok)
       IN  inv' = [inv EXCEPT ![i] =
                     Continue([@ EXCEPT !.events = @ \o out], config, HandlerResult(out))]
    /\ UNCHANGED <<config, me>>

\* handle_mention asking the completion service before it signals typing
HandleMentionTyping_late(i, ok) ==
    /\ i \in DOMAIN inv
    /\ inv[i].pc = "mention"
    /\ LET msg == inv[i].msg
           message_text == extract_message_text(msg)
       IN  IF ok
           THEN inv' = [inv EXCEPT
                          ![i].events = @ \o <<Create(Unwrap(inv[i].arg), message_text),
                                               SendChatAction(msg.chat, TRUE)>>,
                          ![i].pc = "awaiting"]
           ELSE inv' = [inv EXCEPT ![i] =
                          Continue([@ EXCEPT !.events = @ \o <<SendChatAction(msg.chat, FALSE)>>],
                                   config, Err("RequestError"))]
    /\ UNCHANGED <<config, me>>

\* handle_mention not asking the completion service again for a text an
\* earlier invocation has asked about
HandleMentionTyping_cached(i, ok) ==
    /\ i \in DOMAIN inv
    /\ inv[i].pc = "mention"
    /\ LET msg == inv[i].msg
           message_text == extract_message_text(msg)
           request == Create(Unwrap(inv[i].arg), message_text)
           cached == \E j \in 1..Len(inv) : \E k \in DOMAIN inv[j].events :
                         inv[j].events[k] = request
       IN  IF ok
           THEN inv' = [inv EXCEPT
                          ![i].events = @ \o <<SendChatAction(msg.chat, TRUE)>>
                                          \o (IF cached THEN << >> ELSE <<request>>),
                          ![i].pc = "awaiting"]
           ELSE inv' = [inv EXCEPT ![i] =
                          Continue([@ EXCEPT !.events = @ \o <<SendChatAction(msg.chat, FALSE)>>],
                                   config, Err("RequestError"))]
    /\ UNCHANGED <<config, me>>

\* handle_mention going on to the completion call when the typing signal
\* was refused
HandleMentionTyping_swallow(i, ok) ==
    /\ i \in DOMAIN inv
    /\ inv[i].pc = "mention"
    /\ LET msg == inv[i].msg
           message_text == extract_message_text(msg)
       IN  inv' = [inv EXCEPT
                     ![i].events = @ \o <<SendChatAction(msg.chat, ok),
                                          Create(Unwrap(inv[i].arg), message_text)>>,
                     ![i].pc = "awaiting"]
    /\ UNCHANGED <<config, me>>

\* handle_mention up to the completion call: the typing signal, and if the
\* platform accepts it the request to the completion service
HandleMentionTyping(i, ok) ==
    /\ i \in DOMAIN inv
    /\ inv[i].pc = "mention"
    /\ LET msg == inv[i].msg
           message_text == extract_message_text(msg)
       IN  IF ok
           THEN inv' = [inv EXCEPT
                          ![i].events = @ \o <<SendChatAction(msg.chat, TRUE),
                                               Create(Unwrap(inv[i].arg), message_text)>>,
                          ![i].pc = "awaiting"]
           ELSE inv' = [inv EXCEPT ![i] =
                          Continue([@ EXCEPT !.events = @ \o <<SendChatAction(msg.chat, FALSE)>>],
                                   config, Err("RequestError"))]
    /\ UNCHANGED <<config, me>>

\* a completion call that fails in transport drops the invocation part-way
CompletionReturns_cancel(i, resp, ok) ==
    /\ i \in DOMAIN inv
    /\ inv[i].pc = "awaiting"
    /\ LET completion == send_openai_request(resp)
           out == handle_mention_reply(inv[i].msg, completion, ok)
       IN  IF IsSome(resp.err)
           THEN inv' = [inv EXCEPT ![i].pc = "cancelled", ![i].response = Some(resp)]
           ELSE inv' = [inv EXCEPT ![i] =
                          Continue([@ EXCEPT !.events = @ \o out,
                                             !.response = Some(resp),
                                             !.completion = Some(completion)],
                                   config, HandlerResult(out))]
    /\ UNCHANGED <<config, me>>

\* completion results kept in one place for all invocations: an invocation
\* replies with the result another invocation got, when there is one
CompletionReturns_crossed(i, resp, ok) ==
    /\ i \in DOMAIN inv
    /\ inv[i].pc = "awaiting"
    /\ LET others == {j \in DOMAIN inv : j # i /\ IsSome(inv[j].completion)}
           completion == IF others # {}
                         THEN Unwrap(inv[CHOOSE j \in others : TRUE].completion)
                         ELSE send_openai_request(resp)
           out == handle_mention_reply(inv[i].msg, completion, ok)
       IN  inv' = [inv EXCEPT ![i] =
                     Continue([@ EXCEPT !.events = @ \o out,
                                        !.response = Some(resp),
                                        !.completion = Some(completion)],
                              config, HandlerResult(out))]
    /\ UNCHANGED <<config, me>>

\* the completion call returns resp; handle_mention replies or apologises
CompletionReturns(i, resp, ok) ==
    /\ i \in DOMAIN inv
    /\ inv[i].pc = "awaiting"
    /\ LET completion == send_openai_request(resp)
           out == handle_mention_reply(inv[i].msg, completion, ok)
       IN  inv' = [inv EXCEPT ![i] =
                     Continue([@ EXCEPT !.events = @ \o out,
                                        !.response = Some(resp),
                                        !.completion = Some(completion)],
                              config, HandlerResult(out))]
    /\ UNCHANGED <<config, me>>

Next ==
    \/ \E msg \in InboundMessages : Route(msg)
    \/ \E i \in 1..MaxMsgs, ok \in BOOLEAN : CommandHandler(i, ok)
    \/ \E i \in 1..MaxMsgs, ok \in BOOLEAN : HandleMentionTyping(i, ok)
    \/ \E i \in 1..MaxMsgs, resp \in Responses, ok \in BOOLEAN : CompletionReturns(i, resp, ok)

Spec == Init /\ [][Next]_vars

\* every awaited call of a running handler returns in the end: the send of
\* command_handler, the typing signal, the completion call and the reply
Fairness ==
    \A i \in 1..MaxMsgs :
        /\ WF_vars(\E ok \in BOOLEAN : CommandHandler(i, ok))
        /\ WF_vars(\E ok \in BOOLEAN : HandleMentionTyping(i, ok))
        /\ WF_vars(\E resp \in Responses, ok \in BOOLEAN : CompletionReturns(i, resp, ok))

\* the inbound messages that carry entities: those that can start a
\* Mention Handler invocation, and the commands that carry a mention
MessagesWithEntities ==
    { msg \in InboundMessages : IsSome(msg.entities) /\ Len(Unwrap(msg.entities)) > 0 }

NextWithEntities ==
    \/ \E msg \in MessagesWithEntities : Route(msg)
    \/ \E i \in 1..MaxMsgs, ok \in BOOLEAN : CommandHandler(i, ok)
    \/ \E i \in 1..MaxMsgs, ok \in BOOLEAN : HandleMentionTyping(i, ok)
    \/ \E i \in 1..MaxMsgs, resp \in Responses, ok \in BOOLEAN : CompletionReturns(i, resp, ok)

\* a start with the model name set and the greeting left to its default
InitDefaultGreeting ==
    /\ config = from_env([OPENAI_MODEL_NAME |-> "gpt-4o", BOT_GREETING_MESSAGE |-> None])
    /\ me \in BotNames
    /\ inv = << >>

\* the dispatch of messages with entities, every awaited call returning
FairSpec == InitDefaultGreeting /\ [][NextWithEntities]_vars /\ Fairness

----------------------------------------------------------------------------
(* Vocabulary of the properties *)

Ids == 1..Len(inv)

Done(i) == inv[i].pc = "done"

\* the outbound actions of one kind of invocation i, in order
EventsOf(i, kind) == SelectSeq(inv[i].events, LAMBDA e : e.kind = kind)

\* the message carries an entity of kind mention
HasMentionEntity(msg) ==
    /\ IsSome(msg.entities)
    /\ \E k \in DOMAIN Unwrap(msg.entities) : Unwrap(msg.entities)[k] = "mention"

\* t is /help or /start, bare or addressed to the bot whose username is name
RecognizedCommand(t, name) ==
    /\ t.word \in {"/help", "/start"}
    /\ t.at \in {None, Some(name)}

\* the text of the message is a recognized command for this bot
TextIsCommand(msg) == IsSome(msg.text) /\ RecognizedCommand(Unwrap(msg.text), me)

\* the caption of the message is a recognized command for this bot
CaptionIsCommand(msg) == IsSome(msg.caption) /\ RecognizedCommand(Unwrap(msg.caption), me)

\* handler h has been entered for invocation i
Ran(i, h) == \E k \in DOMAIN inv[i].ran : inv[i].ran[k] = h

----------------------------------------------------------------------------
(* Router *)

\* C1: for every inbound message the Router runs at most one of the Command
\* Handler and the Mention Handler: no message is handled by both, and a
\* message that entered the command branch is not in, and has not been in,
\* the mention branch.
C1_ExactlyOneBranch ==
    \A i \in Ids :
        /\ Len(inv[i].ran) <= 1
        /\ ~(Ran(i, "command") /\ Ran(i, "mention"))
        /\ Ran(i, "command") => inv[i].pc # "mention" /\ inv[i].pc # "awaiting"
        /\ Done(i) => inv[i].ran \in {<<"command">>, <<"mention">>, << >>}

\* a message that passes both filters has been handled, by the Command
\* Handler alone
C1_Witness ==
    \E i \in Ids :
        /\ Done(i)
        /\ TextIsCommand(inv[i].msg) /\ HasMentionEntity(inv[i].msg)
        /\ inv[i].ran = <<"command">>

\* C2: a message whose text is a recognized command (help or start) goes to
\* the Command Handler even if it carries a mention entity; the Mention
\* Handler is not run for it (no typing signal, no completion request).
C2_CommandPrecedence ==
    \A i \in Ids :
        TextIsCommand(inv[i].msg) =>
            /\ inv[i].ran = <<"command">>
            /\ EventsOf(i, "send_chat_action") = << >>
            /\ EventsOf(i, "create") = << >>

\* a help command that carries a mention entity has been handled
C2_Witness ==
    \E i \in Ids :
        /\ Done(i)
        /\ IsSome(inv[i].msg.text) /\ Unwrap(inv[i].msg.text).word = "/help"
        /\ TextIsCommand(inv[i].msg) /\ HasMentionEntity(inv[i].msg)
        /\ Ran(i, "command")

\* C3, as stated: every message that carries a mention entity is handled by
\* the Mention Handler, whatever its text.
C3_MentionAlways ==
    \A i \in Ids :
        HasMentionEntity(inv[i].msg) => inv[i].ran = <<"mention">>

\* C3, amended: every message that carries a mention entity and whose text is
\* not a recognized command for this bot is handled by the Mention Handler,
\* whatever else its text is.
C3_MentionUnlessCommand ==
    \A i \in Ids :
        HasMentionEntity(inv[i].msg) /\ ~TextIsCommand(inv[i].msg) =>
            inv[i].ran = <<"mention">>

\* a message with a mention entity that is not the first of its entities,
\* and a text that is a command for another bot, is in the Mention Handler
C3_Witness ==
    \E i \in Ids :
        /\ HasMentionEntity(inv[i].msg) /\ Unwrap(inv[i].msg.entities)[1] # "mention"
        /\ Unwrap(inv[i].msg.text).word = "/help" /\ ~TextIsCommand(inv[i].msg)
        /\ inv[i].ran = <<"mention">>

----------------------------------------------------------------------------
(* Command Handler *)

\* C5: every message whose text is a recognized command (help, start) and
\* which the Router gave to the Command Handler results in exactly one
\* outbound text message: the configured greeting, to the chat of the
\* message, with no completion request.
C5_GreetingForCommand ==
    \A i \in Ids :
        Done(i) /\ TextIsCommand(inv[i].msg) /\ Ran(i, "command") =>
            /\ Len(EventsOf(i, "send_message")) = 1
            /\ EventsOf(i, "send_message")[1].text = config.greeting_message
            /\ EventsOf(i, "send_message")[1].chat = inv[i].msg.chat
            /\ EventsOf(i, "create") = << >>

----------------------------------------------------------------------------
(* Mention Handler and Completion Requester *)

\* the response is a service failure: a transport/API error, no candidate,
\* or a first candidate without text
FailureResponse(resp) ==
    \/ IsSome(resp.err)
    \/ resp.choices = << >>
    \/ resp.choices[1] = None

\* what the user sees of invocation i: the typing signals and the texts
UserVisible(i) ==
    SelectSeq(inv[i].events, LAMBDA e : e.kind \in {"send_chat_action", "send_message"})

\* C6: in a Mention Handler invocation no text is sent before the typing
\* signal and, after it, the completion request; when every send succeeds
\* and the first candidate carries text T, the outbound actions are exactly
\* one typing signal to the chat, one completion request, one reply T.
C6_TypingRequestReply ==
    \A i \in Ids :
        Ran(i, "mention") =>
            /\ \A k \in DOMAIN inv[i].events :
                   inv[i].events[k].kind = "send_message" =>
                       \E a, b \in 1..(k - 1) :
                           /\ a < b
                           /\ inv[i].events[a].kind = "send_chat_action"
                           /\ inv[i].events[b].kind = "create"
            /\ ( /\ Done(i) /\ Unwrap(inv[i].result).ok
                 /\ IsSome(inv[i].response)
                 /\ ~FailureResponse(Unwrap(inv[i].response)) ) =>
                   /\ Len(inv[i].events) = 3
                   /\ inv[i].events[1] = SendChatAction(inv[i].msg.chat, TRUE)
                   /\ inv[i].events[2].kind = "create"
                   /\ inv[i].events[3] =
                          SendMessage(inv[i].msg.chat,
                                      Unwrap(Unwrap(inv[i].response).choices[1]), TRUE)

\* a mention has been answered with the text of the completion service
C6_Witness ==
    \E i \in Ids :
        /\ Done(i) /\ Ran(i, "mention") /\ Unwrap(inv[i].result).ok
        /\ IsSome(inv[i].response) /\ ~FailureResponse(Unwrap(inv[i].response))
        /\ Len(EventsOf(i, "send_message")) = 1

\* C7: after a completion failure the only text sent is the apology, and two
\* invocations for the same message that differ only in the failure show the
\* user the same outbound actions.
C7_ApologyWhateverTheReason ==
    /\ \A i \in Ids :
           IsSome(inv[i].response) /\ FailureResponse(Unwrap(inv[i].response)) =>
               /\ Len(EventsOf(i, "send_message")) = 1
               /\ EventsOf(i, "send_message")[1].text = Apology
    /\ \A i, j \in Ids :
           ( /\ Done(i) /\ Done(j)
             /\ inv[i].msg = inv[j].msg
             /\ inv[i].result = inv[j].result
             /\ IsSome(inv[i].response) /\ FailureResponse(Unwrap(inv[i].response))
             /\ IsSome(inv[j].response) /\ FailureResponse(Unwrap(inv[j].response)) ) =>
               UserVisible(i) = UserVisible(j)

\* the same message has failed once with a transport error and once with a
\* response without candidates
C7_Witness ==
    \E i, j \in Ids :
        /\ Done(i) /\ Done(j) /\ inv[i].msg = inv[j].msg
        /\ inv[i].result = inv[j].result
        /\ IsSome(inv[i].response) /\ IsSome(Unwrap(inv[i].response).err)
        /\ IsSome(inv[j].response) /\ Unwrap(inv[j].response).err = None
        /\ Unwrap(inv[j].response).choices = << >>

\* C8: on a response with one candidate carrying text T the completion
\* requester returns Text(T), unmodified, and the Mention Handler sends
\* exactly T as the reply.
C8_TextExactly ==
    \A i \in Ids :
        ( /\ IsSome(inv[i].response)
          /\ Unwrap(inv[i].response).err = None
          /\ Len(Unwrap(inv[i].response).choices) = 1
          /\ IsSome(Unwrap(inv[i].response).choices[1]) ) =>
            LET T == Unwrap(Unwrap(inv[i].response).choices[1])
            IN  /\ inv[i].completion = Some(Ok(T))
                /\ Len(EventsOf(i, "send_message")) = 1
                /\ EventsOf(i, "send_message")[1].text = T
                /\ EventsOf(i, "send_message")[1].chat = inv[i].msg.chat

\* a response with one candidate carrying a text of two parts has come back
C8_Witness ==
    \E i \in Ids :
        /\ IsSome(inv[i].response)
        /\ Unwrap(inv[i].response).err = None
        /\ Len(Unwrap(inv[i].response).choices) = 1
        /\ IsSome(Unwrap(inv[i].response).choices[1])
        /\ Len(Unwrap(Unwrap(inv[i].response).choices[1])) = 2

\* C9: the completion requester returns a Failure, never a Text, when the
\* call fails, when the response has no candidate, and when the first
\* candidate has no text, even if a later candidate has one.
C9_FailureDecidedByFirst ==
    \A i \in Ids :
        IsSome(inv[i].response) /\ FailureResponse(Unwrap(inv[i].response)) =>
            /\ IsSome(inv[i].completion)
            /\ ~Unwrap(inv[i].completion).ok

\* a response whose first candidate has no text and whose second has one has
\* come back
C9_Witness ==
    \E i \in Ids :
        /\ IsSome(inv[i].response)
        /\ Len(Unwrap(inv[i].response).choices) = 2
        /\ Unwrap(inv[i].response).choices[1] = None
        /\ IsSome(Unwrap(inv[i].response).choices[2])
        /\ ~Unwrap(inv[i].completion).ok

\* the typing signal of invocation i was accepted
TypingSucceeded(i) ==
    \E k \in DOMAIN inv[i].events :
        inv[i].events[k].kind = "send_chat_action" /\ inv[i].events[k].ok

\* C10: a Mention Handler invocation whose typing signal succeeded submits
\* exactly one completion request, whether or not the completion failed and
\* whether or not an earlier invocation had the same text; one whose typing
\* signal did not succeed submits none.
C10_OneRequestPerMention ==
    \A i \in Ids :
        Ran(i, "mention") =>
            Len(EventsOf(i, "create")) = IF TypingSucceeded(i) THEN 1 ELSE 0

\* two mentions with the same text have been handled, the first of them with
\* a failed completion
C10_Witness ==
    \E i, j \in Ids :
        /\ i < j /\ Done(i) /\ Done(j)
        /\ inv[i].msg.text = inv[j].msg.text
        /\ IsSome(inv[i].completion) /\ ~Unwrap(inv[i].completion).ok
        /\ IsSome(inv[j].completion)
        /\ EventsOf(i, "create") = EventsOf(j, "create")
        /\ Len(EventsOf(j, "create")) = 1

----------------------------------------------------------------------------
(* Outbound-send failures *)

\* the typing signal of invocation i was refused
TypingFailed(i) ==
    \E k \in DOMAIN inv[i].events :
        inv[i].events[k].kind = "send_chat_action" /\ ~inv[i].events[k].ok

\* C11: if the typing signal of a Mention Handler invocation fails, the
\* failure is the result of the invocation and nothing else happens in it:
\* no completion request, no reply, no apology, no log entry, no second
\* typing signal.
C11_TypingFailurePropagates ==
    \A i \in Ids :
        TypingFailed(i) =>
            /\ Done(i)
            /\ inv[i].result = Some(Err("RequestError"))
            /\ inv[i].events = <<SendChatAction(inv[i].msg.chat, FALSE)>>
            /\ inv[i].response = None

\* a mention whose typing signal was refused has ended
C11_Witness ==
    \E i \in Ids : Ran(i, "mention") /\ TypingFailed(i) /\ Done(i)

\* invocation i ended with a propagated outbound-send failure
Failed(i) == Done(i) /\ IsSome(inv[i].result) /\ ~Unwrap(inv[i].result).ok

\* the branch the Router is to choose for a message
ExpectedBranches(msg) ==
    IF TextIsCommand(msg) \/ CaptionIsCommand(msg) THEN <<"command">>
    ELSE IF HasMentionEntity(msg) THEN <<"mention">>
    ELSE << >>

\* C12: a handler failure does not halt the dispatch loop: after an
\* invocation has ended in a propagated send failure, every further message
\* (while the update source has one, and once the earlier updates of its chat
\* are handled) can still be dispatched, and every later message is given
\* to the branch of its classification.
C12_DispatchGoesOn ==
    \A i \in Ids :
        Failed(i) =>
            /\ \A msg \in InboundMessages :
                   ( /\ Len(inv) < MaxMsgs
                     /\ \A j \in Ids : inv[j].msg.chat = msg.chat => Done(j) ) =>
                       ENABLED Route(msg)
            /\ \A j \in Ids : i < j => inv[j].branches = ExpectedBranches(inv[j].msg)

\* after a failed invocation a later message of the same chat has been
\* dispatched to the Mention Handler
C12_Witness ==
    \E i, j \in Ids :
        /\ i < j /\ Failed(i)
        /\ inv[j].msg.chat = inv[i].msg.chat
        /\ inv[j].ran = <<"mention">>

----------------------------------------------------------------------------
(* Threading of the chat identifier, the configuration and the text *)

\* C13: every outbound action (greeting, typing signal, reply, apology) made
\* while handling a message targets the chat of that message.
C13_SameChat ==
    \A i \in Ids :
        \A k \in DOMAIN inv[i].events :
            inv[i].events[k].kind \in {"send_message", "send_chat_action"} =>
                inv[i].events[k].chat = inv[i].msg.chat

\* a greeting has gone to one chat and an apology to the other
C13_Witness ==
    \E i, j \in Ids :
        /\ inv[i].msg.chat # inv[j].msg.chat
        /\ Ran(i, "command") /\ Len(EventsOf(i, "send_message")) = 1
        /\ Ran(j, "mention") /\ Len(EventsOf(j, "send_chat_action")) = 1
        /\ Len(EventsOf(j, "send_message")) = 1
        /\ EventsOf(j, "send_message")[1].text = Apology
        /\ inv[j].msg.chat = 7

\* C14: every completion request carries a non-empty model identifier, the
\* one configured at startup, and as its one user message the text of the
\* inbound message; the placeholder "Hello" stands in exactly when the
\* message has no text.
C14_RequestWellFormed ==
    \A i \in Ids :
        \A k \in DOMAIN inv[i].events :
            inv[i].events[k].kind = "create" =>
                /\ inv[i].events[k].model # ""
                /\ inv[i].events[k].model = config.llm_model_name
                /\ inv[i].events[k].content =
                       IF inv[i].msg.text = None
                       THEN Txt("Hello", None)
                       ELSE Unwrap(inv[i].msg.text)

----------------------------------------------------------------------------
(* Termination of the Mention Handler *)

\* the outcomes of a Mention Handler invocation
Replied(i) ==
    /\ Unwrap(inv[i].result).ok
    /\ IsSome(inv[i].completion) /\ Unwrap(inv[i].completion).ok
    /\ Len(EventsOf(i, "send_message")) = 1
    /\ EventsOf(i, "send_message")[1].text = Unwrap(inv[i].completion).val

Apologised(i) ==
    /\ Unwrap(inv[i].result).ok
    /\ IsSome(inv[i].completion) /\ ~Unwrap(inv[i].completion).ok
    /\ Len(EventsOf(i, "send_message")) = 1
    /\ EventsOf(i, "send_message")[1].text = Apology

Propagated(i) == ~Unwrap(inv[i].result).ok

ExactlyOneOutcome(i) ==
    /\ Replied(i) \/ Apologised(i) \/ Propagated(i)
    /\ ~(Replied(i) /\ Apologised(i))
    /\ ~(Replied(i) /\ Propagated(i))
    /\ ~(Apologised(i) /\ Propagated(i))

\* C15: if every awaited call returns, a Mention Handler invocation that has
\* begun ends, in exactly one of: reply sent, apology sent, send failure
\* propagated.
C15_MentionTerminates ==
    \A i \in 1..MaxMsgs :
        (i \in DOMAIN inv /\ inv[i].pc \in {"mention", "awaiting"})
            ~> (i \in DOMAIN inv /\ Done(i) /\ IsSome(inv[i].result) /\ ExactlyOneOutcome(i))

\* one Mention Handler invocation has ended with a reply and another with a
\* propagated failure of the apology
C15_Witness ==
    \E i, j \in Ids :
        /\ Ran(i, "mention") /\ Done(i) /\ Replied(i)
        /\ Ran(j, "mention") /\ Done(j) /\ Propagated(j)
        /\ IsSome(inv[j].completion) /\ ~Unwrap(inv[j].completion).ok

----------------------------------------------------------------------------
(* BotConfig is read-only *)

\* C16: BotConfig is never mutated after construction, and under every
\* interleaving of handler invocations the greeting given to the Command
\* Handler and the model identifier given to the Mention Handler are the
\* values fixed at startup.
C16_ConfigImmutable ==
    [][ /\ config' = config
        /\ \A i \in DOMAIN inv' :
               /\ inv'[i].pc = "command" =>
                      inv'[i].arg = Some(config.greeting_message)
               /\ inv'[i].pc \in {"mention", "awaiting"} =>
                      inv'[i].arg = Some(config.llm_model_name) ]_vars

\* with a configured greeting, a Command Handler invocation and a Mention
\* Handler invocation are running at once
C16_Witness ==
    /\ config.greeting_message = <<"Welcome!">>
    /\ \E i, j \in Ids :
           /\ inv[i].pc = "command" /\ inv[i].arg = Some(config.greeting_message)
           /\ inv[j].pc = "awaiting" /\ inv[j].arg = Some(config.llm_model_name)

----------------------------------------------------------------------------
(* Failure of the reply, and the error log *)

\* C17: if the send of the reply or of the apology fails, the failure is the
\* result of the invocation: nothing follows the refused send (no apology,
\* no second send), a refused reply is not logged as a completion error, and
\* a Mention Handler invocation attempts at most one text message.
C17_ReplyFailurePropagates ==
    \A i \in Ids :
        Ran(i, "mention") =>
            /\ Len(EventsOf(i, "send_message")) <= 1
            /\ \A k \in DOMAIN inv[i].events :
                   (inv[i].events[k].kind = "send_message" /\ ~inv[i].events[k].ok) =>
                       /\ k = Len(inv[i].events)
                       /\ Done(i)
                       /\ inv[i].result = Some(Err("RequestError"))
                       /\ Unwrap(inv[i].completion).ok => EventsOf(i, "log_error") = << >>

\* the send of a generated reply has been refused
C17_Witness ==
    \E i \in Ids :
        /\ Ran(i, "mention") /\ Done(i)
        /\ IsSome(inv[i].completion) /\ Unwrap(inv[i].completion).ok
        /\ Len(EventsOf(i, "send_message")) = 1
        /\ ~EventsOf(i, "send_message")[1].ok

\* C18: a Mention Handler invocation writes an error log entry with the
\* failure reason if and only if its completion request ended in Failure,
\* and writes it before it sends the apology; it writes none when the
\* completion succeeded (or was never asked for).
C18_ErrorLoggedIffFailure ==
    \A i \in Ids :
        Ran(i, "mention") =>
            IF IsSome(inv[i].completion) /\ ~Unwrap(inv[i].completion).ok
            THEN /\ Len(EventsOf(i, "log_error")) = 1
                 /\ LET text == EventsOf(i, "log_error")[1].text
                    IN  SubSeq(text, 2, Len(text)) = Unwrap(inv[i].completion).val
                 /\ \E a, b \in DOMAIN inv[i].events :
                        /\ a < b
                        /\ inv[i].events[a].kind = "log_error"
                        /\ inv[i].events[b].kind = "send_message"
                        /\ inv[i].events[b].text = Apology
                 /\ \A a, b \in DOMAIN inv[i].events :
                        ( /\ inv[i].events[a].kind = "send_message"
                          /\ inv[i].events[b].kind = "log_error" ) => b < a
            ELSE EventsOf(i, "log_error") = << >>

\* a transport error has been logged and the apology refused, and a
\* successful completion has left no log entry
C18_Witness ==
    \E i, j \in Ids :
        /\ IsSome(inv[i].response) /\ IsSome(Unwrap(inv[i].response).err)
        /\ Len(EventsOf(i, "log_error")) = 1
        /\ ~EventsOf(i, "send_message")[1].ok
        /\ IsSome(inv[j].completion) /\ Unwrap(inv[j].completion).ok
        /\ EventsOf(j, "log_error") = << >>

----------------------------------------------------------------------------
(* Independence of the invocations *)

\* the request of invocation i is built from its own message, and its reply
\* is the apology or the text of the response to its own request, sent to
\* its own chat
ReplyIsOwn(i) ==
    /\ \A k \in DOMAIN inv[i].events :
           inv[i].events[k].kind = "create" =>
               inv[i].events[k].content = Unwrap(inv[i].msg.text)
    /\ IsSome(inv[i].response) =>
           /\ Len(EventsOf(i, "send_message")) = 1
           /\ EventsOf(i, "send_message")[1].chat = inv[i].msg.chat
           /\ EventsOf(i, "send_message")[1].text =
                  IF FailureResponse(Unwrap(inv[i].response))
                  THEN Apology
                  ELSE Unwrap(Unwrap(inv[i].response).choices[1])

\* C19: under every interleaving of Mention Handler invocations, a step of
\* one invocation leaves every other invocation as it was, and the reply of
\* each invocation is determined by its own message and its own completion
\* result, never by those of another invocation.
C19_InvocationsIndependent ==
    [][ /\ \A i, j \in DOMAIN inv :
               (inv'[i] # inv[i] /\ inv'[j] # inv[j]) => i = j
        /\ \A i \in DOMAIN inv' : inv'[i].ran = <<"mention">> => ReplyIsOwn(i)' ]_vars

\* of two Mention Handler invocations for different texts in different
\* chats, the later one has replied with its text while the earlier one is
\* still waiting for its completion
C19_Witness ==
    \E i, j \in Ids :
        /\ i < j
        /\ inv[i].msg.text # inv[j].msg.text /\ inv[i].msg.chat # inv[j].msg.chat
        /\ inv[i].pc = "awaiting"
        /\ Done(j) /\ IsSome(inv[j].completion) /\ Unwrap(inv[j].completion).ok
        /\ Len(EventsOf(j, "send_message")) = 1

----------------------------------------------------------------------------
(* The second parse of the Command Handler *)

\* the text command_handler parses: the text of the message, or the empty
\* text
TextOrDefault(msg) == IF IsSome(msg.text) THEN Unwrap(msg.text) ELSE Txt("", None)

\* C20: the Command Handler parses the text again, for the bot name "bot"
\* and not for the username the Router's filter used; when this parse fails
\* for a message the Router gave to the command branch, the handler sends
\* nothing and returns success, and the message is not given to the Mention
\* Handler even if it carries a mention entity; when it succeeds the
\* greeting is sent.
C20_SecondParseAgainstBot ==
    \A i \in Ids :
        Ran(i, "command") /\ Done(i) =>
            IF RecognizedCommand(TextOrDefault(inv[i].msg), "bot")
            THEN /\ Len(inv[i].events) = 1
                 /\ inv[i].events[1].kind = "send_message"
                 /\ inv[i].events[1].text = config.greeting_message
            ELSE /\ inv[i].events = << >>
                 /\ inv[i].result = Some(Ok("unit"))
                 /\ inv[i].ran = <<"command">>

\* a help command addressed to the bot by its username, with a mention
\* entity, has gone through the Command Handler with nothing sent
C20_Witness ==
    \E i \in Ids :
        /\ Done(i) /\ Ran(i, "command")
        /\ me # "bot"
        /\ TextIsCommand(inv[i].msg) /\ IsSome(Unwrap(inv[i].msg.text).at)
        /\ HasMentionEntity(inv[i].msg)
        /\ inv[i].events = << >>

====
